---- MODULE Spec2Model ----
(***************************************************************************)
(* Path Tiles: the matching enumerator (generate_path_tiles.py) and the    *)
(* tile carver with its batch export (create_tile_mesh.py).                *)
(***************************************************************************)
EXTENDS Integers, Sequences, FiniteSets, TLC

VARIABLES
    \* generate_matchings and its consumer list(...)
    points, all_matchings, gpc,
    \* export_tiles
    pool, engine, idx, exported, called, bpc,
    \* one create_tile_mesh call
    pc, matching, groove_polygons, merged_grooves, groove_meshes, dot_i,
    endpoint_dots, channel_mesh, dot_mesh, cutters, boolean_calls, carved,
    error, warned, geom_ops

gvars == <<points, all_matchings, gpc>>
bvars == <<pool, engine, idx, exported, called, bpc>>
cvars == <<pc, matching, groove_polygons, merged_grooves, groove_meshes, dot_i,
           endpoint_dots, channel_mesh, dot_mesh, cutters, boolean_calls, carved,
           error, warned, geom_ops>>
vars == <<gvars, bvars, cvars>>

(* ---------------------------- bounds ----------------------------------- *)
\* labels the point lists handed to generate_matchings are drawn from: 0..MaxPoints-1
MaxPoints == 8
\* longest pool of matchings handed to export_tiles
MaxPool == 2
\* most parts of a MultiPolygon returned by unary_union
MaxPieces == 2

(* ------------------------ create_tile_mesh.py -------------------------- *)
NumEndpoints == 8

\* matchings handed to the carver: a perfect matching, one with a repeated
\* index, the empty one (wrong pair count), one with an index past the end of
\* endpoints2d, and one with a negative index
Matchings ==
    { << <<0, 1>>, <<2, 3>>, <<4, 5>>, <<6, 7>> >>,
      << <<0, 1>>, <<1, 2>>, <<3, 4>>, <<5, 6>> >>,
      << >>,
      << <<0, 1>>, <<2, 8>> >>,
      << <<0, 1>>, <<2, 3>>, <<4, 5>>, <<6, -1>> >> }

RECURSIVE SeqsUpTo(_, _)
SeqsUpTo(S, n) ==
    IF n = 0 THEN {<<>>}
    ELSE LET shorter == SeqsUpTo(S, n - 1)
         IN  shorter \cup {Append(s, x) : s \in shorter, x \in S}

\* triang_engine or DEFAULT_ENGINE
Engines == {"earcut", "None"}

NoMesh == [kind |-> "None"]
\* what is_valid_mesh reads of a mesh: volume > 0, is_watertight, is_winding_consistent
Meshes ==
    { [kind |-> "Trimesh", volume_pos |-> v, watertight |-> w, winding_consistent |-> c] :
        v, w, c \in BOOLEAN }

\* variant: negative indices rejected
IndexOKNonNegative(i) == 0 <= i /\ i < NumEndpoints
\* endpoints2d[i] of an 8-element list: negative indices count from the end
IndexOK(i) == -NumEndpoints <= i /\ i < NumEndpoints

\* variant: only the volume is checked
is_valid_mesh_volume_only(mesh) ==
    IF mesh = NoMesh THEN FALSE ELSE mesh.volume_pos
\* mesh.volume > 0 and mesh.is_watertight and mesh.is_winding_consistent
is_valid_mesh(mesh) ==
    IF mesh = NoMesh THEN FALSE
    ELSE mesh.volume_pos /\ mesh.watertight /\ mesh.winding_consistent

\* cutters, as built by the two ifs in front of the boolean step
CuttersOf(ch, dots) ==
    (IF ch # NoMesh /\ is_valid_mesh(ch)
        THEN << [name |-> "channel", mesh |-> ch] >> ELSE <<>>)
        \o (IF dots # NoMesh /\ is_valid_mesh(dots)
               THEN << [name |-> "dots", mesh |-> dots] >> ELSE <<>>)

\* difference([base] + cutters): the slab with the named cutters removed
Difference(cs) == [kind |-> "Trimesh", minus |-> {cs[k].name : k \in 1 .. Len(cs)}]
Base == [kind |-> "Trimesh", minus |-> {}]

LocalsFresh ==
    /\ groove_polygons = <<>> /\ merged_grooves = "None" /\ groove_meshes = <<>>
    /\ dot_i = 0 /\ endpoint_dots = <<>> /\ channel_mesh = NoMesh /\ dot_mesh = NoMesh
    /\ cutters = <<>> /\ boolean_calls = <<>> /\ carved = NoMesh
    /\ error = "none" /\ warned = {} /\ geom_ops = {}

Init ==
    /\ points = <<>> /\ all_matchings = <<>> /\ gpc = "exhausted"
    /\ pool \in SeqsUpTo(Matchings, MaxPool)
    /\ engine \in Engines
    /\ idx = 1 /\ exported = <<>> /\ called = <<>> /\ bpc = "running"
    /\ pc = "Idle" /\ matching = <<>>
    /\ LocalsFresh

\* raise: the call ends with the exception e
Raise(e) == /\ pc' = "Failed" /\ error' = e

\* export_tiles: the loop calls create_tile_mesh on the next matching of the pool
CallCreateTileMesh ==
    /\ bpc = "running" /\ pc = "Idle" /\ idx <= Len(pool)
    /\ matching' = pool[idx]
    /\ called' = Append(called, idx)
    /\ pc' = "Start"
    /\ UNCHANGED <<gvars, pool, engine, idx, exported, bpc>>
    /\ UNCHANGED <<groove_polygons, merged_grooves, groove_meshes, dot_i, endpoint_dots,
                   channel_mesh, dot_mesh, cutters, boolean_calls, carved, error,
                   warned, geom_ops>>

\* engine check, base slab, endpoints2d and center
ComputeLayout ==
    /\ pc = "Start"
    /\ IF engine = "None"
          THEN /\ Raise("ImportError")
               /\ UNCHANGED geom_ops
          ELSE /\ pc' = "LayoutComputed"
               /\ geom_ops' = geom_ops \cup {"box"}
               /\ UNCHANGED error
    /\ UNCHANGED <<gvars, bvars, matching, groove_polygons, merged_grooves, groove_meshes,
                   dot_i, endpoint_dots, channel_mesh, dot_mesh, cutters, boolean_calls,
                   carved, warned>>

\* one iteration of "for i, j in matching": Bezier curve, LineString, buffer
BuildCurve ==
    /\ pc = "LayoutComputed"
    /\ Len(groove_polygons) < Len(matching)
    /\ LET pair == matching[Len(groove_polygons) + 1]
       IN  IF ~(IndexOK(pair[1]) /\ IndexOK(pair[2]))
              THEN /\ Raise("IndexError")
                   /\ UNCHANGED <<groove_polygons, geom_ops>>
              ELSE /\ geom_ops' = geom_ops \cup {"curve", "buffer"}
                   /\ \/ /\ groove_polygons' = Append(groove_polygons, pair)
                         /\ UNCHANGED <<pc, error>>
                      \/ /\ Raise("GeometryError")
                         /\ UNCHANGED groove_polygons
    /\ UNCHANGED <<gvars, bvars, matching, merged_grooves, groove_meshes, dot_i,
                   endpoint_dots, channel_mesh, dot_mesh, cutters, boolean_calls,
                   carved, warned>>

\* the loop over the matching is over
CurvesDone ==
    /\ pc = "LayoutComputed"
    /\ Len(groove_polygons) = Len(matching)
    /\ pc' = "CurvesBuilt"
    /\ UNCHANGED <<gvars, bvars, matching, groove_polygons, merged_grooves, groove_meshes,
                   dot_i, endpoint_dots, channel_mesh, dot_mesh, cutters, boolean_calls,
                   carved, error, warned, geom_ops>>

\* unary_union of the groove polygons, when there are any
MergeFootprints ==
    /\ pc = "CurvesBuilt"
    /\ IF groove_polygons # <<>>
          THEN /\ geom_ops' = geom_ops \cup {"union"}
               /\ \/ /\ merged_grooves' \in {"Polygon", "MultiPolygon", "Other"}
                     /\ pc' = "FootprintsMerged"
                     /\ UNCHANGED error
                  \/ /\ Raise("GeometryError")
                     /\ UNCHANGED merged_grooves
          ELSE /\ pc' = "FootprintsMerged"
               /\ UNCHANGED <<merged_grooves, geom_ops, error>>
    /\ UNCHANGED <<gvars, bvars, matching, groove_polygons, groove_meshes, dot_i,
                   endpoint_dots, channel_mesh, dot_mesh, cutters, boolean_calls,
                   carved, warned>>

\* extrude_polygon of every part of the merged footprint, then the translation
ExtrudeVolumes ==
    /\ pc = "FootprintsMerged"
    /\ IF merged_grooves \in {"Polygon", "MultiPolygon"}
          THEN /\ geom_ops' = geom_ops \cup {"extrude"}
               /\ \/ /\ \E n \in (IF merged_grooves = "Polygon" THEN {1} ELSE 2 .. MaxPieces) :
                            groove_meshes' = [k \in 1 .. n |-> "extruded"]
                     /\ pc' = "VolumesExtruded"
                     /\ UNCHANGED error
                  \/ /\ Raise("GeometryError")
                     /\ UNCHANGED groove_meshes
          ELSE /\ pc' = "VolumesExtruded"
               /\ UNCHANGED <<groove_meshes, geom_ops, error>>
    /\ UNCHANGED <<gvars, bvars, matching, groove_polygons, merged_grooves, dot_i,
                   endpoint_dots, channel_mesh, dot_mesh, cutters, boolean_calls,
                   carved, warned>>

\* what one iteration of the endpoint dot loop can do: whether a dot of
\* positive volume is appended, and the warning it prints
MarkerOutcomes ==
    { [appended |-> TRUE,  warning |-> "none"],                 \* clipped cylinder, volume > 0
      [appended |-> FALSE, warning |-> "invalid_clip"],         \* None or volume <= 0
      [appended |-> TRUE,  warning |-> "intersection_failed"],  \* fallback to the cylinder
      [appended |-> FALSE, warning |-> "intersection_failed"],  \* cylinder.volume <= 0
      [appended |-> FALSE, warning |-> "cylinder_failed"] }     \* outer except

\* one iteration of "for i in range(8)": cylinder, clip against the tile box
BuildMarker ==
    /\ pc = "VolumesExtruded"
    /\ dot_i < NumEndpoints
    /\ \E o \in MarkerOutcomes :
          /\ endpoint_dots' = IF o.appended THEN Append(endpoint_dots, "dot")
                                            ELSE endpoint_dots
          /\ warned' = IF o.warning = "none" THEN warned ELSE warned \cup {o.warning}
          /\ geom_ops' = geom_ops \cup
                 (IF o.warning = "cylinder_failed" THEN {"cylinder"}
                                                    ELSE {"cylinder", "intersection"})
    /\ dot_i' = dot_i + 1
    /\ UNCHANGED <<gvars, bvars, pc, matching, groove_polygons, merged_grooves,
                   groove_meshes, channel_mesh, dot_mesh, cutters, boolean_calls,
                   carved, error>>

\* variant: the count check on endpoint_dots left out
ValidateMarkersSkipsCount ==
    /\ pc = "VolumesExtruded"
    /\ dot_i = NumEndpoints
    /\ channel_mesh' \in (IF groove_meshes # <<>> THEN Meshes ELSE {NoMesh})
    /\ dot_mesh' \in (IF endpoint_dots # <<>> THEN Meshes ELSE {NoMesh})
    /\ cutters' = CuttersOf(channel_mesh', dot_mesh')
    /\ pc' = "MarkersValidated"
    /\ UNCHANGED error
    /\ UNCHANGED <<gvars, bvars, matching, groove_polygons, merged_grooves, groove_meshes,
                   dot_i, endpoint_dots, boolean_calls, carved, warned, geom_ops>>
\* after the loop: the count check, concatenation of grooves and of dots,
\* is_valid_mesh and the list of cutters
ValidateMarkers ==
    /\ pc = "VolumesExtruded"
    /\ dot_i = NumEndpoints
    /\ IF Len(endpoint_dots) < NumEndpoints
          THEN /\ Raise("RuntimeError_dots")
               /\ UNCHANGED <<channel_mesh, dot_mesh, cutters>>
          ELSE /\ channel_mesh' \in (IF groove_meshes # <<>> THEN Meshes ELSE {NoMesh})
               /\ dot_mesh' \in (IF endpoint_dots # <<>> THEN Meshes ELSE {NoMesh})
               /\ cutters' = CuttersOf(channel_mesh', dot_mesh')
               /\ pc' = "MarkersValidated"
               /\ UNCHANGED error
    /\ UNCHANGED <<gvars, bvars, matching, groove_polygons, merged_grooves, groove_meshes,
                   dot_i, endpoint_dots, boolean_calls, carved, warned, geom_ops>>

\* difference([base] + cutters, engine="manifold")
CarvePrimary ==
    /\ pc = "MarkersValidated"
    /\ cutters # <<>>
    /\ boolean_calls' = Append(boolean_calls, [engine |-> "manifold", cutters |-> cutters])
    /\ geom_ops' = geom_ops \cup {"difference"}
    /\ pc' = "CarveAttemptedPrimary"
    /\ \/ carved' = Difference(cutters)
       \/ UNCHANGED carved                      \* manifold raised
    /\ UNCHANGED <<gvars, bvars, matching, groove_polygons, merged_grooves, groove_meshes,
                   dot_i, endpoint_dots, channel_mesh, dot_mesh, cutters, error, warned>>

\* variant: scad invoked whether or not manifold raised
CarveFallbackUnguarded ==
    /\ pc = "CarveAttemptedPrimary"
    /\ warned' = warned \cup {"manifold_failed"}
    /\ boolean_calls' = Append(boolean_calls, [engine |-> "scad", cutters |-> cutters])
    /\ pc' = "CarveAttemptedFallback"
    /\ \/ carved' = Difference(cutters)
       \/ UNCHANGED carved
    /\ UNCHANGED <<gvars, bvars, matching, groove_polygons, merged_grooves, groove_meshes,
                   dot_i, endpoint_dots, channel_mesh, dot_mesh, cutters, error, geom_ops>>
\* except: warn, then difference([base] + cutters, engine="scad")
CarveFallback ==
    /\ pc = "CarveAttemptedPrimary"
    /\ carved = NoMesh
    /\ warned' = warned \cup {"manifold_failed"}
    /\ boolean_calls' = Append(boolean_calls, [engine |-> "scad", cutters |-> cutters])
    /\ pc' = "CarveAttemptedFallback"
    /\ \/ carved' = Difference(cutters)
       \/ UNCHANGED carved                      \* scad raised too
    /\ UNCHANGED <<gvars, bvars, matching, groove_polygons, merged_grooves, groove_meshes,
                   dot_i, endpoint_dots, channel_mesh, dot_mesh, cutters, error, geom_ops>>

\* return carved, or the RuntimeError when both engines failed
ReturnCarved ==
    /\ pc \in {"CarveAttemptedPrimary", "CarveAttemptedFallback"}
    /\ IF carved # NoMesh
          THEN /\ pc' = "Done"
               /\ UNCHANGED error
          ELSE /\ pc = "CarveAttemptedFallback"
               /\ Raise("RuntimeError_boolean")
    /\ UNCHANGED <<gvars, bvars, matching, groove_polygons, merged_grooves, groove_meshes,
                   dot_i, endpoint_dots, channel_mesh, dot_mesh, cutters, boolean_calls,
                   carved, warned, geom_ops>>

\* else: carved = base; return carved
ReturnBase ==
    /\ pc = "MarkersValidated"
    /\ cutters = <<>>
    /\ carved' = Base
    /\ pc' = "Done"
    /\ UNCHANGED <<gvars, bvars, matching, groove_polygons, merged_grooves, groove_meshes,
                   dot_i, endpoint_dots, channel_mesh, dot_mesh, cutters, boolean_calls,
                   error, warned, geom_ops>>

\* the locals of a call that ended are gone
LocalsDropped ==
    /\ matching' = <<>>
    /\ groove_polygons' = <<>> /\ merged_grooves' = "None" /\ groove_meshes' = <<>>
    /\ dot_i' = 0 /\ endpoint_dots' = <<>> /\ channel_mesh' = NoMesh /\ dot_mesh' = NoMesh
    /\ cutters' = <<>> /\ boolean_calls' = <<>> /\ carved' = NoMesh
    /\ warned' = {} /\ geom_ops' = {}

\* export_tiles: mesh.export(path), then the next iteration
ExportTile ==
    /\ bpc = "running" /\ pc = "Done"
    /\ exported' = Append(exported, idx)
    /\ idx' = idx + 1
    /\ pc' = "Idle"
    /\ LocalsDropped
    /\ UNCHANGED <<gvars, pool, engine, called, bpc, error>>

\* variant: the failing tile is skipped and the loop goes on
PropagateStopsBatchNot ==
    /\ bpc = "running" /\ pc = "Failed"
    /\ idx' = idx + 1
    /\ pc' = "Idle"
    /\ error' = "none"
    /\ LocalsDropped
    /\ UNCHANGED <<gvars, pool, engine, exported, called, bpc>>
\* export_tiles has no except: the exception of create_tile_mesh ends the loop
Propagate ==
    /\ bpc = "running" /\ pc = "Failed"
    /\ bpc' = "aborted"
    /\ UNCHANGED <<gvars, pool, engine, idx, exported, called, cvars>>

\* the pool is used up: export_tiles returns
FinishExport ==
    /\ bpc = "running" /\ pc = "Idle" /\ idx > Len(pool)
    /\ bpc' = "finished"
    /\ UNCHANGED <<gvars, pool, engine, idx, exported, called, cvars>>

Next ==
    \/ CallCreateTileMesh
    \/ ComputeLayout
    \/ BuildCurve
    \/ CurvesDone
    \/ MergeFootprints
    \/ ExtrudeVolumes
    \/ BuildMarker
    \/ ValidateMarkers
    \/ CarvePrimary
    \/ CarveFallback
    \/ ReturnCarved
    \/ ReturnBase
    \/ ExportTile
    \/ Propagate
    \/ FinishExport

Spec == Init /\ [][Next]_vars

(* --------------------- generate_path_tiles.py -------------------------- *)
RECURSIVE SortedSeq(_)
SortedSeq(S) ==
    IF S = {} THEN <<>>
    ELSE LET m == CHOOSE x \in S : \A y \in S : x <= y
         IN  <<m>> \o SortedSeq(S \ {m})

RECURSIVE Reverse(_)
Reverse(s) == IF s = <<>> THEN <<>> ELSE Reverse(Tail(s)) \o <<Head(s)>>

\* lists of distinct points, ascending or descending
PointLists ==
    LET Asc == {SortedSeq(S) : S \in SUBSET (0 .. MaxPoints - 1)}
    IN  Asc \cup {Reverse(s) : s \in Asc}

\* variant: rest = points[i + 1 :], losing the points between first and second
RestDropsPrefix(pts, i) == SubSeq(pts, i + 1, Len(pts))
\* rest = points[1:i] + points[i + 1 :]   (i is the 1-based position of second)
Rest(pts, i) == SubSeq(pts, 2, i - 1) \o SubSeq(pts, i + 1, Len(pts))

\* [pair] + matching, for every matching of a recursive call
Prepend(pair, ms) == [k \in 1 .. Len(ms) |-> <<pair>> \o ms[k]]

RECURSIVE generate_matchings(_), MatchingsFrom(_, _)
\* the iterations i, i+1, ... of the for loop over the partner of points[0]
MatchingsFrom(pts, i) ==
    IF i > Len(pts) THEN <<>>
    ELSE Prepend(<<pts[1], pts[i]>>, generate_matchings(Rest(pts, i)))
             \o MatchingsFrom(pts, i + 1)

\* variant: a single leftover point treated like the empty list
generate_matchings_single_is_base(pts) ==
    IF Len(pts) <= 1 THEN << <<>> >> ELSE MatchingsFrom(pts, 2)
\* the sequence of matchings the generator yields, in order
generate_matchings(pts) ==
    IF pts = <<>> THEN << <<>> >> ELSE MatchingsFrom(pts, 2)

GenInit ==
    /\ pool = <<>> /\ engine = "None" /\ idx = 1 /\ exported = <<>> /\ called = <<>>
    /\ bpc = "finished" /\ pc = "Idle" /\ matching = <<>>
    /\ LocalsFresh
    /\ points \in PointLists
    /\ all_matchings = <<>>
    /\ gpc = "running"

\* list(...) pulls the next matching from the generator
GenYield ==
    /\ gpc = "running"
    /\ Len(all_matchings) < Len(generate_matchings(points))
    /\ all_matchings' = Append(all_matchings,
                               generate_matchings(points)[Len(all_matchings) + 1])
    /\ UNCHANGED <<points, gpc, bvars, cvars>>

\* the generator is exhausted: it returns normally (StopIteration), raising nothing
GenExhausted ==
    /\ gpc = "running"
    /\ Len(all_matchings) = Len(generate_matchings(points))
    /\ gpc' = "exhausted"
    /\ UNCHANGED <<points, all_matchings, bvars, cvars>>

GenNext == GenYield \/ GenExhausted

SpecGen == GenInit /\ [][GenNext]_vars

(* ------------------------------ C1 ------------------------------------- *)
RECURSIVE DoubleFactorial(_)
DoubleFactorial(n) == IF n <= 1 THEN 1 ELSE n * DoubleFactorial(n - 2)

Even(n) == n % 2 = 0
PointsOf(m) == UNION {{m[k][1], m[k][2]} : k \in 1 .. Len(m)}
AsPairSet(m) == {{m[k][1], m[k][2]} : k \in 1 .. Len(m)}
Range(s) == {s[k] : k \in 1 .. Len(s)}

IsPerfectMatching(m, pts) ==
    /\ Len(m) * 2 = Len(pts)
    /\ \A k \in 1 .. Len(m) : m[k][1] # m[k][2]
    /\ \A k, l \in 1 .. Len(m) : k # l => {m[k][1], m[k][2]} \cap {m[l][1], m[l][2]} = {}
    /\ PointsOf(m) = Range(pts)

\* C1: on an even number N of distinct points the generator yields exactly
\* (N-1)!! matchings, each N/2 disjoint pairs covering every point once, and
\* no two of them equal as sets of unordered pairs.
C1_CountAndValidity ==
    Even(Len(points)) =>
        /\ \A k \in 1 .. Len(all_matchings) : IsPerfectMatching(all_matchings[k], points)
        /\ \A k, l \in 1 .. Len(all_matchings) :
              k # l => AsPairSet(all_matchings[k]) # AsPairSet(all_matchings[l])
        /\ Len(all_matchings) <= DoubleFactorial(Len(points) - 1)
        /\ gpc = "exhausted" => Len(all_matchings) = DoubleFactorial(Len(points) - 1)

C1_Witness ==
    /\ gpc = "exhausted"
    /\ Len(points) = 8
    /\ Len(all_matchings) = 105

(* ------------------------------ C2 ------------------------------------- *)
\* C2 (as claimed): on a point list of odd size the enumerator fails with an
\* explicit InvalidInputError instead of ending normally.
C2_OddInputRaises ==
    ~Even(Len(points)) => gpc \in {"running", "InvalidInputError"}

\* C2 (amended): on a point list of odd size the enumerator raises nothing; it
\* ends normally having yielded no matching at all, never a partial one.
C2_OddInputYieldsNothing ==
    ~Even(Len(points)) =>
        /\ all_matchings = <<>>
        /\ gpc \in {"running", "exhausted"}

C2_Witness ==
    /\ Len(points) = 3
    /\ gpc = "exhausted"
    /\ all_matchings = <<>>

(* ------------------------- carver claims ------------------------------- *)
Terminated == pc \in {"Done", "Failed"}
IndicesOf(m) == UNION {{m[k][1], m[k][2]} : k \in 1 .. Len(m)}
\* 4 pairs covering 0..7 once each
WellFormed(m) ==
    /\ Len(m) = 4
    /\ IndicesOf(m) = 0 .. 7
Malformed(m) == ~WellFormed(m)
\* an index Python rejects on an 8-element list
PastTheList(pair) == pair[1] > 7 \/ pair[1] < -8 \/ pair[2] > 7 \/ pair[2] < -8

(* ------------------------------ C3 ------------------------------------- *)
\* C3 (as claimed): given a malformed matching the carver raises
\* InvalidInputError before any geometry step has run.
C3_MalformedRejectedFirst ==
    (pc # "Idle" /\ Malformed(matching)) =>
        /\ geom_ops = {}
        /\ Terminated => error = "InvalidInputError"

\* C3 (amended): the carver does not validate the matching and never raises
\* InvalidInputError. Given a malformed matching it builds the base slab and then
\* one curve and footprint per pair, in order; only an index that Python list
\* indexing rejects (below -8 or above 7) ends the call, with IndexError, when
\* its pair is reached; a repeated index, a wrong pair count or an index in
\* -8..-1 goes through the whole pipeline like any other matching.
C3_MalformedNotValidated ==
    (pc # "Idle" /\ Malformed(matching)) =>
        /\ error # "InvalidInputError"
        /\ \A k \in 1 .. Len(groove_polygons) :
              groove_polygons[k] = matching[k] /\ ~PastTheList(matching[k])
        /\ error = "IndexError" =>
              /\ "box" \in geom_ops
              /\ Len(groove_polygons) < Len(matching)
              /\ PastTheList(matching[Len(groove_polygons) + 1])
        /\ pc \notin {"Start", "LayoutComputed", "Failed"} => groove_polygons = matching

C3_Witness ==
    /\ pc = "Done"
    /\ matching = << <<0, 1>>, <<1, 2>>, <<3, 4>>, <<5, 6>> >>
    /\ {"curve", "extrude", "intersection", "difference"} \subseteq geom_ops

(* ------------------------------ C4 ------------------------------------- *)
\* C4: for a valid matching, a returned solid is the result of a boolean
\* difference that removed at least one cutting volume (so its volume is
\* strictly below that of the uncarved slab).
C4_ReturnedSolidIsCarved ==
    (pc = "Done" /\ WellFormed(matching)) =>
        /\ carved # NoMesh
        /\ carved.minus # {}

(* ------------------------------ C5 ------------------------------------- *)
\* C5: manifold is tried first; scad is invoked only after manifold failed, at
\* most once, on the same base and cutters; a manifold result is returned
\* without scad being invoked; when both fail the call raises and returns no solid.
C5_CallOrder ==
    /\ Len(boolean_calls) <= 2
    /\ Len(boolean_calls) >= 1 =>
          /\ boolean_calls[1].engine = "manifold"
          /\ boolean_calls[1].cutters = cutters
    /\ Len(boolean_calls) = 2 =>
          /\ boolean_calls[2].engine = "scad"
          /\ boolean_calls[2].cutters = boolean_calls[1].cutters
          /\ "manifold_failed" \in warned
    /\ (pc = "Done" /\ boolean_calls # <<>>) => carved = Difference(cutters)
    /\ error = "RuntimeError_boolean" =>
          /\ pc = "Failed" /\ carved = NoMesh /\ Len(boolean_calls) = 2

C5_PrimaryResultReturned ==
    (pc = "CarveAttemptedPrimary" /\ carved # NoMesh) =>
        /\ pc' = "Done"
        /\ carved' = carved
        /\ boolean_calls' = boolean_calls

C5_FallbackOnlyAfterFailure ==
    (Len(boolean_calls') = 2 /\ Len(boolean_calls) # 2) =>
        /\ pc = "CarveAttemptedPrimary"
        /\ carved = NoMesh
        /\ Len(boolean_calls) = 1

C5_PrimaryThenFallback ==
    /\ []C5_CallOrder
    /\ [][C5_PrimaryResultReturned /\ C5_FallbackOnlyAfterFailure]_vars

C5_Witness ==
    /\ pc = "Failed"
    /\ error = "RuntimeError_boolean"
    /\ Len(boolean_calls) = 2

Ended == bpc \in {"finished", "aborted"}
UpTo(n) == [k \in 1 .. n |-> k]

\* C7 (as claimed): a fatal error in one tile does not abort the batch; every
\* tile of the pool is carved, and exported unless its own carve failed.
C7_FailuresIsolated ==
    Ended =>
        /\ bpc = "finished"
        /\ called = UpTo(Len(pool))

\* C7 (amended): a fatal error while carving one tile aborts the batch: the
\* exception leaves export_tiles; every tile before the failing one stays
\* exported, and neither the failing tile nor any tile after it is exported,
\* and no tile after it is carved.
C7_FailureAbortsBatch ==
    /\ exported = UpTo(Len(exported))
    /\ called = UpTo(Len(called))
    /\ idx = Len(exported) + 1
    /\ Len(called) = (IF pc = "Idle" THEN idx - 1 ELSE idx)
    /\ bpc = "aborted" => pc = "Failed" /\ error # "none" /\ idx <= Len(pool)
    /\ bpc = "finished" => exported = UpTo(Len(pool))

C7_Witness ==
    /\ bpc = "aborted"
    /\ Len(pool) = 2
    /\ exported = <<1>>
    /\ called = <<1, 2>>

(* ------------------------------ C8 ------------------------------------- *)
\* C8: a returned solid has the combined channel volume and the combined
\* marker volume that were built subtracted from the base slab.
C8_AllBuiltVolumesSubtracted ==
    pc = "Done" =>
        /\ dot_mesh # NoMesh => "dots" \in carved.minus
        /\ channel_mesh # NoMesh => "channel" \in carved.minus

(* ------------------------------ C9 ------------------------------------- *)
Operands == UNION {Range(boolean_calls[k].cutters) : k \in 1 .. Len(boolean_calls)}
PassesCheck(mesh) == mesh.volume_pos /\ mesh.watertight /\ mesh.winding_consistent
Validated == pc \in {"MarkersValidated", "CarveAttemptedPrimary",
                     "CarveAttemptedFallback", "Done"}
Built == {m \in {channel_mesh, dot_mesh} : m # NoMesh}
SomeCutterDropped ==
    Validated /\ \E m \in Built : \A k \in 1 .. Len(cutters) : cutters[k].mesh # m

\* C9 (as claimed): every operand of either engine passed the validity check,
\* and a cutting volume that fails it is dropped with a warning.
C9_DroppedWithWarning ==
    /\ \A c \in Operands : PassesCheck(c.mesh)
    /\ SomeCutterDropped => "invalid_cutter" \in warned

\* C9 (amended): every cutting volume handed to either boolean engine has
\* passed the validity check (positive volume, watertight, consistent
\* winding); one that fails it is dropped without any warning and is never an
\* operand of the primary or the fallback difference.
C9_OperandsValid ==
    /\ \A c \in Operands : PassesCheck(c.mesh)
    /\ \A k \in 1 .. Len(cutters) : PassesCheck(cutters[k].mesh)
    /\ Validated => \A m \in Built :
          PassesCheck(m) <=> \E k \in 1 .. Len(cutters) : cutters[k].mesh = m

C9_DropIsSilent ==
    (pc = "VolumesExtruded" /\ pc' = "MarkersValidated") => warned' = warned

C9_InvalidCuttersDroppedSilently ==
    /\ []C9_OperandsValid
    /\ [][C9_DropIsSilent]_vars

C9_Witness ==
    /\ pc = "CarveAttemptedPrimary"
    /\ channel_mesh # NoMesh /\ ~PassesCheck(channel_mesh)
    /\ PassesCheck(dot_mesh)
    /\ Len(boolean_calls[1].cutters) = 1
    /\ boolean_calls[1].cutters[1].name = "dots"

(* ------------------------------ C10 ------------------------------------ *)
\* C10: a call ends in Done (a solid returned, no error) or in Failed (an
\* error, no solid), and reaches Done only after a CarveAttempted stage, i.e.
\* after a boolean engine was invoked.
C10_DoneOnlyAfterCarve ==
    /\ pc = "Failed" => error # "none" /\ carved = NoMesh
    /\ pc = "Done" => error = "none" /\ carved # NoMesh /\ boolean_calls # <<>>
====
